---- MODULE Spec2Model ----
(***************************************************************************)
(* CEASIOMpy optimisation loop (src/ceasiompy/Optimisation/optimisation.py) *)
(*                                                                         *)
(* The module is a single thread of control: routine_setup builds the two  *)
(* variable dictionaries and stages the CPACS files, run_routine hands the *)
(* control to an OpenMDAO driver, the driver evaluates the model (the      *)
(* components 'objective' and 'const', in the order they were added), and  *)
(* objective_function.compute calls one_iteration, which runs the module   *)
(* chain and evaluates the objective expression with compute_obj.          *)
(*                                                                         *)
(* Numbers: the values read from the CPACS file are Python floats.  They   *)
(* are modelled as exact rationals <<n, d>> (d > 0, lowest terms); the     *)
(* operations the code applies to them are + - * / and unary minus.        *)
(* Strings that the code takes apart (Rt.objective and the dictionary      *)
(* keys) are sequences of one-character strings.                           *)
(***************************************************************************)
EXTENDS Integers, Sequences, FiniteSets, TLC

VARIABLES
    pc,               \* position of the single thread of control
    Rt,               \* opf.Routine: type, modules, driver, objective
    design_var_dict,  \* key -> [name, listval, minval, maxval]
    res_var_dict,     \* key -> [name, listval]
    counter,          \* global 'counter' of one_iteration calls
    slot,             \* the CPACS files: <<module, "in"|"out">> -> document
    archive,          \* files copied into Optimisation/: name -> document
    wkdirs,           \* number of working directories created so far
    inputs,           \* the design point the driver proposes (key -> value)
    outputs,          \* output ports of the two components (name -> value)
    ret,              \* value returned by compute_obj / one_iteration
    logged,           \* 'result' written to the log by compute_obj
    exc,              \* the exception in flight ("" when none)
    iter,             \* model evaluations the driver has issued
    mi,               \* index of the next module of the chain to run
    hist              \* history variable: what happened to each evaluation

vars == <<pc, Rt, design_var_dict, res_var_dict, counter, slot, archive, wkdirs,
          inputs, outputs, ret, logged, exc, iter, mi, hist>>

(***************************************************************************)
(* Rational arithmetic (the float operations of eval and of '-result').    *)
(***************************************************************************)
Abs(x) == IF x < 0 THEN -x ELSE x

RECURSIVE GCD(_, _)
GCD(a, b) == IF b = 0 THEN a ELSE GCD(b, a % b)

Norm(n, d) ==
    LET s == IF d < 0 THEN -1 ELSE 1
        g == GCD(Abs(n), Abs(d))
    IN  <<(s * n) \div g, (s * d) \div g>>

RAdd(a, b) == Norm(a[1] * b[2] + b[1] * a[2], a[2] * b[2])
RNeg(a) == <<-a[1], a[2]>>
RSub(a, b) == RAdd(a, RNeg(b))
RMul(a, b) == Norm(a[1] * b[1], a[2] * b[2])
RDiv(a, b) == Norm(a[1] * b[2], a[2] * b[1])
Zero == <<0, 1>>
Tenths(k) == Norm(k, 10)

Last(s) == s[Len(s)]

(***************************************************************************)
(* Strings as character sequences.                                         *)
(***************************************************************************)
Letters == {"c", "l", "d", "m", "s", "f", "o"}
Digits == {"2"}
OpChars == {"+", "*", "/", "-"}

K_cl == <<"c", "l">>
K_cd == <<"c", "d">>
K_cms == <<"c", "m", "s">>
K_foo == <<"f", "o", "o">>

\* A token Python accepts as the target of 'tok = ...' (an identifier).
IsIdentifier(tok) ==
    /\ Len(tok) > 0
    /\ tok[1] \in Letters
    /\ \A i \in 1..Len(tok) : tok[i] \in Letters \cup Digits

\* re.split('[+*/-]', s): the pieces between the operator characters, the
\* empty ones included (n operator characters give n + 1 pieces).
RECURSIVE splt(_)
splt(s) ==
    IF \A i \in 1..Len(s) : s[i] \notin OpChars
    THEN <<s>>
    ELSE LET i == CHOOSE k \in 1..Len(s) :
                      /\ s[k] \in OpChars
                      /\ \A j \in 1..(k - 1) : s[j] \notin OpChars
         IN  <<SubSeq(s, 1, i - 1)>> \o splt(SubSeq(s, i + 1, Len(s)))

\* The operator characters of s, in order.
OpsOf(s) == SelectSeq(s, LAMBDA ch : ch \in OpChars)

(***************************************************************************)
(* eval(Rt.objective) for 'name (op name)*' with every name bound: Python  *)
(* precedence, * and / before + and -, each level left to right.  acc is   *)
(* the sum of the finished terms, sign and term the term being built.      *)
(***************************************************************************)
Fold(acc, sign, term) == IF sign = "-" THEN RSub(acc, term) ELSE RAdd(acc, term)

RECURSIVE EvalFrom(_, _, _, _, _, _)
EvalFrom(acc, sign, term, i, vals, ops) ==
    IF i > Len(ops)
    THEN [exc |-> "", val |-> Fold(acc, sign, term)]
    ELSE CASE ops[i] = "*" ->
                EvalFrom(acc, sign, RMul(term, vals[i + 1]), i + 1, vals, ops)
           [] ops[i] = "/" ->
                IF vals[i + 1][1] = 0
                THEN [exc |-> "ZeroDivisionError", val |-> Zero]
                ELSE EvalFrom(acc, sign, RDiv(term, vals[i + 1]), i + 1, vals, ops)
           [] OTHER ->
                EvalFrom(Fold(acc, sign, term), ops[i], vals[i + 1], i + 1, vals, ops)

eval(vals, ops) == EvalFrom(Zero, "+", vals[1], 1, vals, ops)

(***************************************************************************)
(* compute_obj, lines 233-255.  The loop of exec statements binds each     *)
(* token to res_var_dict[token][1][-1]; the first token that is no         *)
(* assignable name (SyntaxError when exec compiles it) or no key of        *)
(* res_var_dict (KeyError) ends the call.  CPython 3.6-3.12 keeps the      *)
(* names exec binds in the frame's locals, where eval finds them.          *)
(* The value is [exc, result, ret]: the exception raised ("" when none),   *)
(* the value logged on line 253 and the value returned on line 255.        *)
(***************************************************************************)
ExecError(tok, rvd) ==
    IF ~IsIdentifier(tok) THEN "SyntaxError"
    ELSE IF tok \notin DOMAIN rvd THEN "KeyError"
    ELSE IF Len(rvd[tok].listval) = 0 THEN "IndexError"
    ELSE ""

\* Mutant: 'return result' instead of 'return -result'.
compute_obj_NoNegation(objective, rvd) ==
    LET var_list == splt(objective)
        bad == {i \in 1..Len(var_list) : ExecError(var_list[i], rvd) # ""}
    IN  IF bad # {}
        THEN LET i == CHOOSE k \in bad : \A j \in bad : k <= j
             IN  [exc |-> ExecError(var_list[i], rvd), result |-> Zero, ret |-> Zero]
        ELSE LET vals == [i \in 1..Len(var_list) |-> Last(rvd[var_list[i]].listval)]
                 r == eval(vals, OpsOf(objective))
             IN  IF r.exc # ""
                 THEN [exc |-> r.exc, result |-> Zero, ret |-> Zero]
                 ELSE [exc |-> "", result |-> r.val, ret |-> r.val]

\* Mutant: an undeclared name is bound to 0 instead of raising KeyError.
compute_obj_Defaulting(objective, rvd) ==
    LET var_list == splt(objective)
        bad == {i \in 1..Len(var_list) : ~IsIdentifier(var_list[i])}
    IN  IF bad # {}
        THEN [exc |-> "SyntaxError", result |-> Zero, ret |-> Zero]
        ELSE LET vals == [i \in 1..Len(var_list) |->
                             IF var_list[i] \in DOMAIN rvd
                             THEN Last(rvd[var_list[i]].listval) ELSE Zero]
                 r == eval(vals, OpsOf(objective))
             IN  IF r.exc # ""
                 THEN [exc |-> r.exc, result |-> Zero, ret |-> Zero]
                 ELSE [exc |-> "", result |-> r.val, ret |-> RNeg(r.val)]

compute_obj(objective, rvd) ==
    LET var_list == splt(objective)
        bad == {i \in 1..Len(var_list) : ExecError(var_list[i], rvd) # ""}
    IN  IF bad # {}
        THEN LET i == CHOOSE k \in bad : \A j \in bad : k <= j
             IN  [exc |-> ExecError(var_list[i], rvd), result |-> Zero, ret |-> Zero]
        ELSE LET vals == [i \in 1..Len(var_list) |-> Last(rvd[var_list[i]].listval)]
                 r == eval(vals, OpsOf(objective))
             IN  IF r.exc # ""
                 THEN [exc |-> r.exc, result |-> Zero, ret |-> Zero]
                 ELSE [exc |-> "", result |-> r.val, ret |-> RNeg(r.val)]

(***************************************************************************)
(* The environment of a run: what routine_setup is called with, what the   *)
(* CPACS file declares, what the driver may propose and what the modules   *)
(* (black boxes) may write.                                                *)
(***************************************************************************)
RoutineTypes == {"DoE", "Optim"}
ModuleLists == {<<"WeightConventional">>, <<"CPACS2SUMO", "SkinFriction">>}
ModuleNames == {"WeightConventional", "CPACS2SUMO", "SkinFriction"}
DesignKeys == {"span", "sweep"}
\* The bounds the CPACS file declares for the design variables: a file that
\* leaves the driver a choice, and one that pins every variable to a point.
WideBounds == [span |-> <<1, 2>>, sweep |-> <<3, 3>>]
PointBounds == [span |-> <<1, 1>>, sweep |-> <<3, 3>>]
AllResKeys == {K_cl, K_cd, K_cms}
ResKeySets == {{K_cl, K_cd, K_cms}, {K_cd, K_cms}}

\* The result values of a document, in tenths.
R(cl, cd, cms) ==
    (K_cl :> Tenths(cl)) @@ (K_cd :> Tenths(cd)) @@ (K_cms :> Tenths(cms))
NoResults == R(0, 0, 0)
\* What a module may do with its document: leave the results as they are, or
\* write new ones.
Keeps == [write |-> FALSE, res |-> NoResults]
Writes(r) == [write |-> TRUE, res |-> r]
ModuleBehaviours == {Keeps, Writes(R(5, 1, 0)), Writes(R(2, 1, 0)), Writes(R(5, 0, 0))}
SteadyBehaviours == {Writes(R(5, 1, 0))}

\* Under Spec the driver proposes at most MaxEvals design points; the
\* program's own cap (num_samples, maxiter) is MaxIter.
MaxEvals == 3
MaxIter == 10

\* A CPACS document: the working directory tagged into it, the design values
\* written at the set-paths, and the results (aeromap coefficients) if any.
NoFile == [wkdir |-> -1, dv |-> [k \in DesignKeys |-> 0], bounds |-> PointBounds,
           hasres |-> FALSE, res |-> NoResults]
InputDoc(bounds) == [wkdir |-> 0, dv |-> [k \in DesignKeys |-> bounds[k][1]],
                     bounds |-> bounds, hasres |-> TRUE, res |-> R(3, 1, 0)]
OutputDoc(bounds) == [InputDoc(bounds) EXCEPT !.res = R(4, 1, 0)]

SlotNames == (ModuleNames \cup {"CPACSUpdater"}) \X {"in", "out"}

\* History variable: evaluations started, completed, failed before and after the
\* results were appended; the outcome of the last one and of the one before;
\* res_var_dict and design_var_dict as they were when the evaluation began; the
\* steps one_iteration has taken in this call; the last module's output file at
\* the end of the last completed evaluation.
NoHist == [started |-> 0, completed |-> 0, failed_early |-> 0, failed_late |-> 0,
           last |-> "none", prev |-> "none", snap |-> <<>>, dsnap |-> <<>>,
           trace |-> <<>>, lastOut |-> NoFile]

\* Before routine_setup the files of the module a workflow starts with exist.
FirstModules == {modules[1] : modules \in ModuleLists}

InitFrom(declared) ==
    /\ pc = "start"
    /\ Rt = [type |-> "", modules |-> <<>>, driver |-> "", objective |-> <<>>]
    /\ design_var_dict = <<>>
    /\ res_var_dict = <<>>
    /\ counter = 0
    /\ \E bounds \in declared :
          slot = [sl \in SlotNames |->
                     IF sl[1] \in FirstModules /\ sl[2] = "in" THEN InputDoc(bounds)
                     ELSE IF sl[1] \in FirstModules /\ sl[2] = "out" THEN OutputDoc(bounds)
                     ELSE NoFile]
    /\ hist = NoHist
    /\ archive = <<>>
    /\ wkdirs = 0
    /\ inputs = <<>>
    /\ outputs = <<>>
    /\ ret = Zero
    /\ logged = Zero
    /\ exc = ""
    /\ iter = 0
    /\ mi = 0

Init == InitFrom({WideBounds, PointBounds})

(***************************************************************************)
(* wkf.copy_module_to_module(src, 'in'|'out', dst, 'in'|name)              *)
(***************************************************************************)
copy_module_to_module(files, src, dst) == [files EXCEPT ![dst] = files[src]]

(***************************************************************************)
(* init_dict(cpacs_path): one entry per declared variable, its history     *)
(* seeded with the value found in the document.                            *)
(***************************************************************************)
init_dict(doc, reskeys) ==
    [res |-> [k \in reskeys |-> [name |-> k, listval |-> <<doc.res[k]>>]],
     design |-> [k \in DesignKeys |->
                    [name |-> k, listval |-> <<doc.dv[k]>>,
                     minval |-> doc.bounds[k][1], maxval |-> doc.bounds[k][2]]]]

(***************************************************************************)
(* routine_setup, lines 266-292.                                           *)
(***************************************************************************)
StagedSlot(modules) == <<modules[1], "out">>

routine_setup(types) ==
    /\ pc = "start"
    /\ \E modules \in ModuleLists, routine_type \in types, reskeys \in ResKeySets :
          /\ Rt' = [type |-> routine_type, modules |-> modules, driver |-> "COBYLA",
                    objective |-> K_cl \o <<"/">> \o K_cd]
          /\ LET d == init_dict(slot[<<modules[1], "in">>], reskeys)
             IN  /\ res_var_dict' = d.res
                 /\ design_var_dict' = d.design
          /\ archive' = (<<"initial", 0>> :> slot[<<modules[1], "out">>])
          /\ slot' = copy_module_to_module(slot, StagedSlot(modules),
                                           <<"CPACSUpdater", "in">>)
    /\ pc' = "run_routine"
    /\ UNCHANGED <<counter, wkdirs, inputs, outputs, ret, logged, exc, iter, mi, hist>>

(***************************************************************************)
(* run_routine, lines 116-159: the problem is built, the components are    *)
(* added in the order 'objective', 'const' (the order in which OpenMDAO    *)
(* runs them), the driver is chosen and prob.setup() gives every output    *)
(* port its initial value.                                                 *)
(***************************************************************************)
\* Mutant: 'const' added to the model before 'objective'.
ModelRunOrder_ConstFirst == <<"const", "objective">>

ModelRunOrder == <<"objective", "const">>

EntryPc(comp) == IF comp = "objective" THEN "obj_compute" ELSE "const_compute"

\* Where control goes when component comp has computed: the next component
\* of the model, or back to the driver when the model run is complete.
AfterComponent(comp) ==
    LET i == CHOOSE j \in 1..Len(ModelRunOrder) : ModelRunOrder[j] = comp
    IN  IF i < Len(ModelRunOrder) THEN EntryPc(ModelRunOrder[i + 1]) ELSE "driver"

run_routine ==
    /\ pc = "run_routine"
    /\ IF Rt.type \in {"DoE", "Optim"}
       THEN /\ pc' = "driver"
            /\ exc' = ""
            /\ outputs' = [n \in {res_var_dict[k].name : k \in DOMAIN res_var_dict}
                                 \cup {Rt.objective} |->
                              IF n = Rt.objective THEN <<1, 1>>
                              ELSE LET k == CHOOSE q \in DOMAIN res_var_dict :
                                                res_var_dict[q].name = n
                                   IN  res_var_dict[k].listval[1]]
       ELSE /\ pc' = "aborted"
            /\ exc' = "UnboundLocalError"
            /\ UNCHANGED outputs
    /\ UNCHANGED <<Rt, design_var_dict, res_var_dict, counter, slot, archive, wkdirs,
                   inputs, ret, logged, iter, mi, hist>>

(***************************************************************************)
(* prob.run_driver(), line 160, with the driver of lines 125-133: it       *)
(* proposes a design point inside the bounds given by add_design_var and   *)
(* runs the model, at most 10 times (num_samples=10, maxiter=10).  A DoE   *)
(* run takes all its samples; an optimizer may also converge earlier.      *)
(***************************************************************************)
\* Mutant: a driver without a cap on its iterations.
CapReached_Never == FALSE

CapReached == iter >= MaxIter

ProposalRange == {1, 2, 3}

DesignPoints ==
    {p \in [DesignKeys -> ProposalRange] :
        \A k \in DesignKeys :
            p[k] \in design_var_dict[k].minval..design_var_dict[k].maxval}

DriverPropose(bounded) ==
    /\ pc = "driver"
    /\ ~CapReached
    /\ bounded => iter < MaxEvals
    /\ \E p \in DesignPoints : inputs' = p
    /\ pc' = EntryPc(ModelRunOrder[1])
    /\ UNCHANGED <<Rt, design_var_dict, res_var_dict, counter, slot, archive, wkdirs,
                   outputs, ret, logged, exc, iter, mi, hist>>

DriverStop ==
    /\ pc = "driver"
    /\ CapReached \/ (Rt.type = "Optim" /\ iter >= 1)
    /\ pc' = "results"
    /\ UNCHANGED <<Rt, design_var_dict, res_var_dict, counter, slot, archive, wkdirs,
                   inputs, outputs, ret, logged, exc, iter, mi, hist>>

\* An exception raised inside compute reaches the driver: it either leaves
\* run_driver (and run_routine, and routine_setup) or the optimizer goes on.
DriverAbort ==
    /\ pc = "raised"
    /\ pc' = "aborted"
    /\ UNCHANGED <<Rt, design_var_dict, res_var_dict, counter, slot, archive, wkdirs,
                   inputs, outputs, ret, logged, exc, iter, mi, hist>>

DriverTolerate ==
    /\ pc = "raised"
    /\ pc' = "driver"
    /\ exc' = ""
    /\ iter' = iter + 1
    /\ UNCHANGED <<Rt, design_var_dict, res_var_dict, counter, slot, archive, wkdirs,
                   inputs, outputs, ret, logged, mi, hist>>

\* Lines 161-177 and 296: cleanup, the log of the results, read_results.
run_routine_results ==
    /\ pc = "results"
    /\ pc' = "done"
    /\ UNCHANGED <<Rt, design_var_dict, res_var_dict, counter, slot, archive, wkdirs,
                   inputs, outputs, ret, logged, exc, iter, mi, hist>>

(***************************************************************************)
(* objective_function.compute, lines 69-76.                                *)
(***************************************************************************)
\* Mutant: the proposed value replaces the last element of the list.
AppendInputs_Overwrite(dvd, point) ==
    [k \in DOMAIN dvd |->
        [dvd[k] EXCEPT !.listval = [@ EXCEPT ![Len(@)] = point[k]]]]

\* Lines 72-73: every design variable's list gets the proposed value.
AppendInputs(dvd, point) ==
    [k \in DOMAIN dvd |-> [dvd[k] EXCEPT !.listval = Append(@, point[k])]]

\* Mutant: the design point is not recorded before one_iteration is called.
objective_function_compute_NoAppend ==
    /\ pc = "obj_compute"
    /\ hist' = [hist EXCEPT !.started = @ + 1, !.snap = res_var_dict,
                            !.dsnap = design_var_dict, !.trace = <<>>,
                            !.prev = hist.last, !.last = "running"]
    /\ pc' = "one_iteration"
    /\ UNCHANGED <<Rt, design_var_dict, res_var_dict, counter, slot, archive, wkdirs,
                   inputs, outputs, ret, logged, exc, iter, mi>>

objective_function_compute ==
    /\ pc = "obj_compute"
    /\ design_var_dict' = AppendInputs(design_var_dict, inputs)
    /\ hist' = [hist EXCEPT !.started = @ + 1, !.snap = res_var_dict,
                            !.dsnap = design_var_dict, !.trace = <<>>,
                            !.prev = hist.last, !.last = "running"]
    /\ pc' = "one_iteration"
    /\ UNCHANGED <<Rt, res_var_dict, counter, slot, archive, wkdirs, inputs, outputs,
                   ret, logged, exc, iter, mi>>

\* Mutant: the adapter flips the sign once more.
PortValue_Negated(returned) == RNeg(returned)

\* Line 76: what one_iteration returned goes to the output port.
PortValue(returned) == returned

objective_function_return ==
    /\ pc = "obj_return"
    /\ outputs' = [outputs EXCEPT ![Rt.objective] = PortValue(ret)]
    /\ pc' = AfterComponent("objective")
    /\ IF AfterComponent("objective") = "driver"
       THEN /\ iter' = iter + 1
            /\ hist' = [hist EXCEPT !.completed = @ + 1, !.last = "completed",
                                    !.lastOut = slot[<<Rt.modules[Len(Rt.modules)], "out">>]]
       ELSE UNCHANGED <<iter, hist>>
    /\ UNCHANGED <<Rt, design_var_dict, res_var_dict, counter, slot, archive, wkdirs,
                   inputs, ret, logged, exc, mi>>

(***************************************************************************)
(* constraint.compute, lines 88-91.                                        *)
(***************************************************************************)
ConstraintOutputs(rvd, out) ==
    [n \in DOMAIN out |->
        IF \E k \in DOMAIN rvd : rvd[k].name = n
        THEN LET k == CHOOSE q \in DOMAIN rvd : rvd[q].name = n
             IN  Last(rvd[k].listval)
        ELSE out[n]]

constraint_compute ==
    /\ pc = "const_compute"
    /\ outputs' = ConstraintOutputs(res_var_dict, outputs)
    /\ pc' = AfterComponent("const")
    /\ IF AfterComponent("const") = "driver"
       THEN /\ iter' = iter + 1
            /\ hist' = [hist EXCEPT !.completed = @ + 1, !.last = "completed",
                                    !.lastOut = slot[<<Rt.modules[Len(Rt.modules)], "out">>]]
       ELSE UNCHANGED <<iter, hist>>
    /\ UNCHANGED <<Rt, design_var_dict, res_var_dict, counter, slot, archive, wkdirs,
                   inputs, ret, logged, exc, mi>>

(***************************************************************************)
(* one_iteration, lines 189-230, one action per step.                      *)
(***************************************************************************)
CU_in == <<"CPACSUpdater", "in">>
CU_out == <<"CPACSUpdater", "out">>
FirstIn(modules) == <<modules[1], "in">>
LastOut(modules) == <<modules[Len(modules)], "out">>

\* Lines 189-208: the counter, the new working directory tagged into the
\* CPACSUpdater input file, its aeromap emptied of the coefficients (only the
\* parameters are saved back), the file saved in place.
one_iteration_begin ==
    /\ pc = "one_iteration"
    /\ counter' = counter + 1
    /\ wkdirs' = wkdirs + 1
    /\ slot' = [slot EXCEPT ![CU_in] = [@ EXCEPT !.wkdir = wkdirs + 1,
                                                 !.hasres = FALSE,
                                                 !.res = NoResults]]
    /\ pc' = "update_cpacs"
    /\ UNCHANGED <<Rt, design_var_dict, res_var_dict, archive, inputs, outputs, ret,
                   logged, exc, iter, mi, hist>>

\* update_cpacs_file(cpacs_path, cpacs_out_path, design_var_dict): the input
\* document with the last value of every design variable at its set-path.
update_cpacs_file(doc, dvd) ==
    [doc EXCEPT !.dv = [k \in DOMAIN dvd |-> Last(dvd[k].listval)]]

\* Lines 211-216.
one_iteration_update_cpacs ==
    /\ pc = "update_cpacs"
    /\ LET doc == update_cpacs_file(slot[CU_in], design_var_dict)
       IN  /\ slot' = [slot EXCEPT ![CU_out] = doc]
           /\ archive' = (<<"iter", counter>> :> doc) @@ archive
    /\ hist' = [hist EXCEPT !.trace = Append(@, "update_cpacs_file")]
    /\ pc' = "copy_first"
    /\ UNCHANGED <<Rt, design_var_dict, res_var_dict, counter, wkdirs, inputs, outputs,
                   ret, logged, exc, iter, mi>>

\* Mutant: update_res_var_dict called before the sub workflow runs.
one_iteration_copy_first_Extracting ==
    /\ pc = "copy_first"
    /\ slot' = copy_module_to_module(slot, <<"CPACSUpdater", "out">>,
                                     <<Rt.modules[1], "in">>)
    /\ res_var_dict' = [k \in DOMAIN res_var_dict |->
                           [res_var_dict[k] EXCEPT !.listval =
                               Append(@, slot[<<"CPACSUpdater", "in">>].res[k])]]
    /\ mi' = 1
    /\ pc' = "run_subworkflow"
    /\ UNCHANGED <<Rt, design_var_dict, counter, archive, wkdirs, inputs,
                   outputs, ret, logged, exc, iter, hist>>

\* Line 219.
one_iteration_copy_first ==
    /\ pc = "copy_first"
    /\ slot' = copy_module_to_module(slot, CU_out, FirstIn(Rt.modules))
    /\ mi' = 1
    /\ pc' = "run_subworkflow"
    /\ UNCHANGED <<Rt, design_var_dict, res_var_dict, counter, archive, wkdirs, inputs,
                   outputs, ret, logged, exc, iter, hist>>

\* Line 220, wkf.run_subworkflow(Rt.modules): module mi gets the output of
\* the module before it (the first one already has its input) and runs.  A
\* module is a black box: it writes its input back, with or without new
\* results.
ModuleInput(files, modules, i) ==
    IF i > 1 THEN files[<<modules[i - 1], "out">>] ELSE files[<<modules[i], "in">>]

run_subworkflow_step(behaviours) ==
    /\ pc = "run_subworkflow"
    /\ mi <= Len(Rt.modules)
    /\ LET m == Rt.modules[mi]
           doc == ModuleInput(slot, Rt.modules, mi)
       IN  \E b \in behaviours :
              LET out == IF b.write THEN [doc EXCEPT !.hasres = TRUE, !.res = b.res]
                         ELSE doc
              IN  slot' = [slot EXCEPT ![<<m, "in">>] = doc, ![<<m, "out">>] = out]
    /\ hist' = [hist EXCEPT !.trace = Append(@, Rt.modules[mi])]
    /\ mi' = mi + 1
    /\ pc' = IF mi = Len(Rt.modules) THEN "copy_back" ELSE "run_subworkflow"
    /\ UNCHANGED <<Rt, design_var_dict, res_var_dict, counter, archive, wkdirs, inputs,
                   outputs, ret, logged, exc, iter>>

\* The module fails: the exception leaves run_subworkflow and one_iteration.
run_subworkflow_fails ==
    /\ pc = "run_subworkflow"
    /\ mi <= Len(Rt.modules)
    /\ slot' = [slot EXCEPT ![<<Rt.modules[mi], "in">>] =
                                 ModuleInput(slot, Rt.modules, mi)]
    /\ exc' = "ModuleExecutionError"
    /\ hist' = [hist EXCEPT !.failed_early = @ + 1, !.last = "failed"]
    /\ pc' = "raised"
    /\ UNCHANGED <<Rt, design_var_dict, res_var_dict, counter, archive, wkdirs, inputs,
                   outputs, ret, logged, iter, mi>>

\* Mutant: the last module's output is not copied back.
one_iteration_copy_back_Missing ==
    /\ pc = "copy_back"
    /\ pc' = "extract"
    /\ UNCHANGED <<Rt, design_var_dict, res_var_dict, counter, slot, archive, wkdirs,
                   inputs, outputs, ret, logged, exc, iter, mi, hist>>

\* Line 221.
one_iteration_copy_back ==
    /\ pc = "copy_back"
    /\ slot' = copy_module_to_module(slot, LastOut(Rt.modules), CU_in)
    /\ pc' = "extract"
    /\ UNCHANGED <<Rt, design_var_dict, res_var_dict, counter, archive, wkdirs, inputs,
                   outputs, ret, logged, exc, iter, mi, hist>>

\* update_res_var_dict(tixi): every result variable's list gets the value
\* found at its get-path in the document.
update_res_var_dict(rvd, doc) ==
    [k \in DOMAIN rvd |-> [rvd[k] EXCEPT !.listval = Append(@, doc.res[k])]]

\* Mutant: compute_obj is called without update_res_var_dict before it.
one_iteration_extract_Skipped ==
    /\ pc = "extract"
    /\ pc' = "compute_obj"
    /\ UNCHANGED <<Rt, design_var_dict, res_var_dict, counter, slot, archive, wkdirs,
                   inputs, outputs, ret, logged, exc, iter, mi, hist>>

\* Lines 224-229: the results file is the last module's output.
one_iteration_extract ==
    /\ pc = "extract"
    /\ LET doc == slot[LastOut(Rt.modules)]
       IN  IF doc.hasres
           THEN /\ res_var_dict' = update_res_var_dict(res_var_dict, doc)
                /\ hist' = [hist EXCEPT !.trace = Append(@, "update_res_var_dict")]
                /\ pc' = "compute_obj"
                /\ UNCHANGED exc
           ELSE /\ exc' = "PathNotFoundError"
                /\ hist' = [hist EXCEPT !.failed_early = @ + 1, !.last = "failed"]
                /\ pc' = "raised"
                /\ UNCHANGED res_var_dict
    /\ UNCHANGED <<Rt, design_var_dict, counter, slot, archive, wkdirs, inputs, outputs,
                   ret, logged, iter, mi>>

\* Line 230: return compute_obj().
one_iteration_compute_obj ==
    /\ pc = "compute_obj"
    /\ LET r == compute_obj(Rt.objective, res_var_dict)
       IN  IF r.exc = ""
           THEN /\ logged' = r.result
                /\ ret' = r.ret
                /\ hist' = [hist EXCEPT !.trace = Append(@, "compute_obj")]
                /\ pc' = "obj_return"
                /\ UNCHANGED exc
           ELSE /\ exc' = r.exc
                /\ hist' = [hist EXCEPT !.failed_late = @ + 1, !.last = "failed"]
                /\ pc' = "raised"
                /\ UNCHANGED <<logged, ret>>
    /\ UNCHANGED <<Rt, design_var_dict, res_var_dict, counter, slot, archive, wkdirs,
                   inputs, outputs, iter, mi>>

(***************************************************************************)
(* The program: a run of routine_setup.                                    *)
(***************************************************************************)
Next ==
    \/ routine_setup(RoutineTypes)
    \/ run_routine
    \/ DriverPropose(TRUE)
    \/ DriverStop
    \/ DriverAbort
    \/ DriverTolerate
    \/ run_routine_results
    \/ objective_function_compute
    \/ objective_function_return
    \/ constraint_compute
    \/ one_iteration_begin
    \/ one_iteration_update_cpacs
    \/ one_iteration_copy_first
    \/ run_subworkflow_step(ModuleBehaviours)
    \/ run_subworkflow_fails
    \/ one_iteration_copy_back
    \/ one_iteration_extract
    \/ one_iteration_compute_obj

Spec == Init /\ [][Next]_vars

(***************************************************************************)
(* A whole run up to the driver's cap, every module execution returning:   *)
(* the file pins the design point and every module writes the same         *)
(* results, so that the ten evaluations stay within reach.  compute_obj    *)
(* still raises KeyError when the file declares no result variable cl, and *)
(* the driver may abort or go on.  The thread of control never stops on    *)
(* its own: weak fairness of the next-state relation.                      *)
(***************************************************************************)
InitTerm == InitFrom({PointBounds})

NextTerm ==
    \/ routine_setup(RoutineTypes)
    \/ run_routine
    \/ DriverPropose(FALSE)
    \/ DriverStop
    \/ DriverAbort
    \/ DriverTolerate
    \/ run_routine_results
    \/ objective_function_compute
    \/ objective_function_return
    \/ constraint_compute
    \/ one_iteration_begin
    \/ one_iteration_update_cpacs
    \/ one_iteration_copy_first
    \/ run_subworkflow_step(SteadyBehaviours)
    \/ one_iteration_copy_back
    \/ one_iteration_extract
    \/ one_iteration_compute_obj

SpecTerm == InitTerm /\ [][NextTerm]_vars /\ WF_vars(NextTerm)

(***************************************************************************)
(* compute_obj as a function of its two inputs, Rt.objective and           *)
(* res_var_dict: the evaluation is entered at the call of compute_obj with *)
(* an objective of up to MaxTokens tokens and one of a few dictionaries,   *)
(* and runs to the end of the model run or to the driver's handling of the *)
(* exception.                                                              *)
(***************************************************************************)
MaxTokens == 3
TokenPool == {K_cl, K_cd, K_foo, <<"2">>, <<>>}

RECURSIVE ObjectivesOf(_)
ObjectivesOf(n) ==
    IF n = 1 THEN TokenPool
    ELSE {o \o <<op>> \o t : o \in ObjectivesOf(n - 1), op \in OpChars, t \in TokenPool}

Objectives == UNION {ObjectivesOf(n) : n \in 1..MaxTokens}

Entry(key, listval) == key :> [name |-> key, listval |-> listval]
T(k) == Tenths(k)
ObjDicts ==
    {Entry(K_cl, clh) @@ Entry(K_cd, cdh) :
        clh \in {<<T(5)>>, <<T(1), T(5)>>, <<T(3), T(2)>>},
        cdh \in {<<T(1)>>, <<T(5), T(1)>>, <<T(1), T(0)>>, <<T(2)>>}}

InitObj ==
    /\ pc = "compute_obj"
    /\ \E objective \in Objectives :
          /\ Rt = [type |-> "Optim", modules |-> <<"WeightConventional">>,
                   driver |-> "COBYLA", objective |-> objective]
          /\ outputs = (objective :> <<1, 1>>) @@ (K_cl :> T(5)) @@ (K_cd :> T(1))
    /\ \E rvd \in ObjDicts :
          /\ res_var_dict = rvd
          /\ hist = [NoHist EXCEPT !.started = 1, !.last = "running", !.snap = rvd,
                        !.dsnap = init_dict(InputDoc(PointBounds), {K_cl, K_cd}).design,
                        !.trace = <<"update_cpacs_file", "WeightConventional",
                                    "update_res_var_dict">>]
    /\ design_var_dict =
          AppendInputs(init_dict(InputDoc(PointBounds), {K_cl, K_cd}).design,
                       [k \in DesignKeys |-> PointBounds[k][1]])
    /\ counter = 1
    /\ slot = [sl \in SlotNames |-> NoFile]
    /\ archive = <<>>
    /\ wkdirs = 1
    /\ inputs = [k \in DesignKeys |-> PointBounds[k][1]]
    /\ ret = Zero
    /\ logged = Zero
    /\ exc = ""
    /\ iter = 0
    /\ mi = 2

NextObj ==
    \/ one_iteration_compute_obj
    \/ objective_function_return
    \/ constraint_compute
    \/ DriverAbort
    \/ DriverTolerate

SpecObj == InitObj /\ [][NextObj]_vars

(***************************************************************************)
(* Properties.                                                             *)
(***************************************************************************)
Tokens == splt(Rt.objective)
AllDeclared == \A i \in 1..Len(Tokens) : Tokens[i] \in DOMAIN res_var_dict
LastOf(key) == Last(res_var_dict[key].listval)
Evaluating == pc = "compute_obj"

\* The raw value of an objective of up to three declared names, written out
\* case by case: a op b, and a op1 b op2 c with * and / binding tighter.
Bin(op, a, b) ==
    CASE op = "+" -> [exc |-> "", val |-> RAdd(a, b)]
      [] op = "-" -> [exc |-> "", val |-> RSub(a, b)]
      [] op = "*" -> [exc |-> "", val |-> RMul(a, b)]
      [] op = "/" -> IF b[1] = 0 THEN [exc |-> "ZeroDivisionError", val |-> Zero]
                     ELSE [exc |-> "", val |-> RDiv(a, b)]

RawValue ==
    LET ops == OpsOf(Rt.objective)
        a == LastOf(Tokens[1])
    IN  IF Len(Tokens) = 1 THEN [exc |-> "", val |-> a]
        ELSE IF Len(Tokens) = 2 THEN Bin(ops[1], a, LastOf(Tokens[2]))
        ELSE LET b == LastOf(Tokens[2])
                 c == LastOf(Tokens[3])
             IN  IF ops[1] \in {"+", "-"} /\ ops[2] \in {"*", "/"}
                 THEN LET r == Bin(ops[2], b, c)
                      IN  IF r.exc # "" THEN r ELSE Bin(ops[1], a, r.val)
                 ELSE LET r == Bin(ops[1], a, b)
                      IN  IF r.exc # "" THEN r ELSE Bin(ops[2], r.val, c)

IsClOverCd == Rt.objective = <<"c", "l", "/", "c", "d">>

C3_UnknownTokenRaises ==
    /\ (~Evaluating /\ ~AllDeclared) =>
          /\ hist.last = "failed"
          /\ hist.failed_late = 1
          /\ hist.completed = 0
          /\ pc \in {"raised", "aborted", "driver"}
          /\ pc \in {"raised", "aborted"} => exc \in {"KeyError", "SyntaxError"}
          /\ ret = Zero
          /\ logged = Zero
          /\ outputs[Rt.objective] = <<1, 1>>
          /\ \A i \in 1..Len(hist.trace) : hist.trace[i] # "compute_obj"
    /\ (~Evaluating /\ Rt.objective = K_foo \o <<"/">> \o K_cd /\ pc \in {"raised", "aborted"}) =>
          exc = "KeyError"

\* C3 witness: "foo/cd" has been evaluated with cd declared and foo not, and
\* the KeyError is on its way to the driver.
C3_Witness ==
    /\ pc = "raised"
    /\ Rt.objective = K_foo \o <<"/">> \o K_cd
    /\ K_cd \in DOMAIN res_var_dict
    /\ K_foo \notin DOMAIN res_var_dict
    /\ exc = "KeyError"

SetUp == pc \notin {"start"}
Quiescent == pc \in {"driver", "results", "done", "aborted"}
IsPrefix(s, t) == Len(s) <= Len(t) /\ SubSeq(t, 1, Len(s)) = s
DesignLen(k) == Len(design_var_dict[k].listval)
ResLen(k) == Len(res_var_dict[k].listval)
Appended == \E i \in 1..Len(hist.trace) : hist.trace[i] = "update_res_var_dict"

\* C1 as stated: whenever no evaluation is in progress, every history of both
\* dictionaries has N + 1 elements, N the number of completed evaluations.
C1_Original ==
    (SetUp /\ Quiescent) =>
        /\ \A k \in DOMAIN design_var_dict : DesignLen(k) = hist.completed + 1
        /\ \A k \in DOMAIN res_var_dict : ResLen(k) = hist.completed + 1

AppendOnly ==
    SetUp =>
        /\ \A k \in DOMAIN design_var_dict :
              /\ k \in DOMAIN design_var_dict'
              /\ IsPrefix(design_var_dict[k].listval, design_var_dict'[k].listval)
        /\ \A k \in DOMAIN res_var_dict :
              /\ k \in DOMAIN res_var_dict'
              /\ IsPrefix(res_var_dict[k].listval, res_var_dict'[k].listval)

HistoryLengths ==
    SetUp =>
        /\ \A k \in DOMAIN design_var_dict : DesignLen(k) = hist.started + 1
        /\ \A k \in DOMAIN res_var_dict :
              ResLen(k) = 1 + hist.completed + hist.failed_late
                            + (IF hist.last = "running" /\ Appended THEN 1 ELSE 0)
        /\ (Quiescent /\ hist.started = hist.completed) =>
              /\ \A k \in DOMAIN design_var_dict : DesignLen(k) = hist.completed + 1
              /\ \A k \in DOMAIN res_var_dict : ResLen(k) = hist.completed + 1

\* C1, amended: every history of both dictionaries is append-only (no step
\* changes, removes or reorders an element it holds); a design variable's
\* history has one element for the seed and one for every evaluation of the
\* objective adapter that was started, a result variable's history one for the
\* seed and one for every evaluation in which update_res_var_dict ran; after N
\* evaluations that all completed both have N + 1 elements.
C1_AppendOnlyLengths == [][AppendOnly]_vars /\ []HistoryLengths

\* C1 witness: two evaluations completed and one failed in the module chain;
\* the design histories hold four values, the result histories three.
C1_Witness ==
    /\ pc = "driver"
    /\ hist.completed = 2
    /\ hist.failed_early = 1
    /\ \A k \in DOMAIN design_var_dict : DesignLen(k) = 4
    /\ \A k \in DOMAIN res_var_dict : ResLen(k) = 3
    /\ design_var_dict["span"].listval = <<1, 2, 1, 2>>

\* C6: on each evaluation the objective adapter appends each input's proposed
\* value to the matching design variable's history and calls one_iteration
\* exactly once (the call counter equals the number of evaluations started,
\* less the call not yet entered); the value on the output port after the
\* evaluation is the negation of the raw value cl/cd of this evaluation's
\* results: -v, the sign flipped once.
C6_AdapterNegatesOnce ==
    /\ (SetUp /\ hist.started >= 1 /\ pc # "obj_compute") =>
          \A k \in DOMAIN design_var_dict :
              /\ design_var_dict[k].listval =
                    Append(hist.dsnap[k].listval, inputs[k])
    /\ counter = hist.started - (IF pc = "one_iteration" THEN 1 ELSE 0)
    /\ (pc = "const_compute" \/ (pc = "driver" /\ hist.last = "completed")) =>
          /\ outputs[Rt.objective] = RNeg(RDiv(LastOf(K_cl), LastOf(K_cd)))
          /\ outputs[Rt.objective] = RNeg(logged)

\* C6 witness: the second evaluation has put -5.0 on the port, cl = 0.5 and
\* cd = 0.1 being the results of this evaluation and not of the one before.
C6_Witness ==
    /\ pc = "const_compute"
    /\ hist.started = 2
    /\ outputs[Rt.objective] = <<-5, 1>>
    /\ res_var_dict[K_cl].listval = <<T(3), T(2), T(5)>>
    /\ design_var_dict["span"].listval = <<1, 1, 2>>

\* C4: when a step of the module chain fails during one_iteration, the call
\* ends there: update_res_var_dict and compute_obj have not run in this call
\* and res_var_dict is what it was before the evaluation, up to the moment the
\* driver takes its next step.
C4_ChainFailureNoAppend ==
    (exc = "ModuleExecutionError") =>
        /\ pc \in {"raised", "aborted"}
        /\ hist.last = "failed"
        /\ res_var_dict = hist.snap
        /\ \A i \in 1..Len(hist.trace) :
              hist.trace[i] \notin {"update_res_var_dict", "compute_obj"}

\* C4 witness: the second module of a chain of two fails in the second
\* evaluation, after the first module has written new results.
C4_Witness ==
    /\ pc = "raised"
    /\ exc = "ModuleExecutionError"
    /\ hist.completed = 1
    /\ mi = 2
    /\ hist.trace = <<"update_cpacs_file", "CPACS2SUMO">>
    /\ slot[<<"CPACS2SUMO", "out">>].res = R(2, 1, 0)
    /\ res_var_dict[K_cl].listval = <<T(3), T(5)>>

LastModuleOut == slot[<<Rt.modules[Len(Rt.modules)], "out">>]
DesignTails == [k \in DOMAIN design_var_dict |-> Last(design_var_dict[k].listval)]

\* C5: the constraint adapter is never evaluated before the objective adapter
\* of the same model run.  When constraint.compute is about to run, the
\* objective evaluation of this run has gone through update_res_var_dict and
\* compute_obj, no result history is longer than a design history, and each
\* result history ends with the value this evaluation read from the last
\* module's output; when it has run, each of its output ports carries that
\* value.
C5_ConstraintAfterObjective ==
    /\ pc = "const_compute" =>
          /\ hist.last = "running"
          /\ Len(hist.trace) > 0 /\ Last(hist.trace) = "compute_obj"
          /\ \A r \in DOMAIN res_var_dict :
                /\ \A d \in DOMAIN design_var_dict : ResLen(r) <= DesignLen(d)
                /\ ResLen(r) = Len(hist.snap[r].listval) + 1
                /\ LastOf(r) = LastModuleOut.res[r]
    /\ (pc = "driver" /\ hist.last = "completed") =>
          \A r \in DOMAIN res_var_dict :
              /\ outputs[res_var_dict[r].name] = LastOf(r)
              /\ ResLen(r) = Len(hist.snap[r].listval) + 1
              /\ outputs[res_var_dict[r].name] = hist.lastOut.res[r]

\* C5 witness: the second model run is complete; the constraint port of cl
\* carries 0.2, the value of this run, the run before having given 0.5.
C5_Witness ==
    /\ pc = "driver"
    /\ hist.last = "completed"
    /\ hist.completed = 2
    /\ outputs[K_cl] = T(2)
    /\ res_var_dict[K_cl].listval = <<T(3), T(5), T(2)>>

\* The steps of a call of one_iteration, in the order of the code.
ExpectedSteps ==
    <<"update_cpacs_file">> \o Rt.modules \o <<"update_res_var_dict", "compute_obj">>

\* C8: in every call of one_iteration the steps come in the order
\* update_cpacs_file, the modules in list order, update_res_var_dict,
\* compute_obj.  Before the first module runs the CPACSUpdater output holds the
\* current design values; when update_res_var_dict has run, every module has
\* run in this call and the last module's output carries this call's working
\* directory and design values; the objective is computed from the values
\* update_res_var_dict appended in this call.
C8_StepOrder ==
    /\ (SetUp /\ pc # "run_routine") => IsPrefix(hist.trace, ExpectedSteps)
    /\ (pc = "run_subworkflow" /\ mi = 1) =>
          /\ hist.trace = <<"update_cpacs_file">>
          /\ slot[<<"CPACSUpdater", "out">>].dv = DesignTails
          /\ slot[<<"CPACSUpdater", "out">>].wkdir = counter
    /\ pc = "compute_obj" =>
          /\ hist.trace = <<"update_cpacs_file">> \o Rt.modules \o <<"update_res_var_dict">>
          /\ LastModuleOut.wkdir = counter
          /\ LastModuleOut.dv = DesignTails
          /\ \A r \in DOMAIN res_var_dict :
                res_var_dict[r].listval =
                    Append(hist.snap[r].listval, LastModuleOut.res[r])
    /\ pc = "obj_return" =>
          /\ hist.trace = ExpectedSteps
          /\ logged = RDiv(LastModuleOut.res[K_cl], LastModuleOut.res[K_cd])
          /\ \A r \in DOMAIN res_var_dict :
                ResLen(r) = Len(hist.snap[r].listval) + 1

\* C8 witness: the second call, with a chain of two modules, has computed
\* 0.2 / 0.1 = 2 from this call's results, the call before having read 0.5.
C8_Witness ==
    /\ pc = "obj_return"
    /\ counter = 2
    /\ Len(Rt.modules) = 2
    /\ logged = <<2, 1>>
    /\ Last(hist.snap[K_cl].listval) = T(5)
    /\ hist.trace = <<"update_cpacs_file", "CPACS2SUMO", "SkinFriction",
                      "update_res_var_dict", "compute_obj">>

AfterFirstCopy == pc \in {"run_subworkflow", "copy_back", "extract", "compute_obj"}

\* C9 as stated: at the start of every call of one_iteration after a completed
\* one, the CPACSUpdater input slot holds the output document of the last
\* module of the last completed iteration.
C9_Original ==
    (pc = "one_iteration" /\ hist.completed >= 1) =>
        slot[<<"CPACSUpdater", "in">>] = hist.lastOut

\* C9, amended: at the start of the first call of one_iteration the
\* CPACSUpdater input slot holds the document routine_setup staged from the
\* first module's output; at the start of a call that follows a completed
\* evaluation it holds the output document of the last module of that
\* evaluation (after a failed evaluation it holds what the failed call left
\* there); within a call, once line 219 has run, the first module's input slot
\* holds the CPACSUpdater output of this call.
C9_Handoff ==
    /\ (pc = "one_iteration" /\ counter = 0) =>
          /\ slot[<<"CPACSUpdater", "in">>] = archive[<<"initial", 0>>]
          /\ slot[<<"CPACSUpdater", "in">>] = slot[<<Rt.modules[1], "out">>]
          /\ slot[<<"CPACSUpdater", "in">>].res = R(4, 1, 0)
    /\ (pc = "one_iteration" /\ hist.prev = "completed") =>
          /\ slot[<<"CPACSUpdater", "in">>] = hist.lastOut
          /\ slot[<<"CPACSUpdater", "in">>] = LastModuleOut
          /\ slot[<<"CPACSUpdater", "in">>].wkdir = counter
    /\ AfterFirstCopy =>
          /\ slot[<<Rt.modules[1], "in">>] = slot[<<"CPACSUpdater", "out">>]
          /\ slot[<<Rt.modules[1], "in">>] = archive[<<"iter", counter>>]
          /\ slot[<<Rt.modules[1], "in">>].wkdir = counter

\* C9 witness: the third call starts after two completed evaluations, with
\* the results 0.2 / 0.1 of the second one in the CPACSUpdater input slot.
C9_Witness ==
    /\ pc = "one_iteration"
    /\ counter = 2
    /\ hist.prev = "completed"
    /\ hist.completed = 2
    /\ slot[<<"CPACSUpdater", "in">>].res = R(2, 1, 0)
    /\ slot[<<"CPACSUpdater", "in">>].wkdir = 2

\* C10: an evaluation that aborts does not take its design point back.  After
\* a failure in the module chain every design history is its value before the
\* evaluation with the proposed value appended, and res_var_dict is unchanged;
\* no result history is ever longer than a design history; and between
\* evaluations the lengths differ by the number of evaluations that failed
\* before update_res_var_dict had run (in the module chain or in reading the
\* results).
C10_NoRollback ==
    /\ (exc = "ModuleExecutionError") =>
          /\ \A d \in DOMAIN design_var_dict :
                /\ design_var_dict[d].listval = Append(hist.dsnap[d].listval, inputs[d])
                /\ DesignLen(d) = hist.started + 1
          /\ res_var_dict = hist.snap
    /\ SetUp =>
          \A d \in DOMAIN design_var_dict, r \in DOMAIN res_var_dict :
              /\ DesignLen(d) >= ResLen(r)
              /\ Quiescent => DesignLen(d) - ResLen(r) = hist.failed_early

\* C10 witness: the driver went on after two evaluations that failed in the
\* module chain and one that completed; the lengths differ by two.
C10_Witness ==
    /\ pc = "driver"
    /\ hist.failed_early = 2
    /\ hist.completed = 1
    /\ hist.failed_late = 0
    /\ DesignLen("span") = 4
    /\ ResLen(K_cd) = 2

\* C7: a run of routine_setup with routine kind DoE or Optim terminates when
\* every module execution returns.  The driver issues at most MaxIter = 10
\* evaluations and starts none once the cap is reached; the run then ends, in
\* the end state of routine_setup unless compute_obj raised (cl undeclared); a
\* DoE run that ends there has taken all 10.
Terminated == pc \in {"done", "aborted"}
C7_Bounded ==
    /\ counter <= MaxIter
    /\ hist.started <= MaxIter
    /\ iter <= MaxIter
    /\ iter >= MaxIter => pc \in {"driver", "results", "done"}
    /\ pc = "aborted" => (exc = "KeyError" /\ K_cl \notin DOMAIN res_var_dict)
    /\ (pc = "done" /\ Rt.type = "DoE") => iter = MaxIter
====
